---- MODULE Spec2Model ----
(***************************************************************************)
(* The Rust quest packet (packet-rust/src/lib.rs): the two entry points   *)
(* init and on_visit, run against the host services they import           *)
(* (register_item, register_task, update_task, notify_player).  The host  *)
(* services are not part of the packet's source; they are modelled from   *)
(* the written description of the content registry and the task ledger.   *)
(*                                                                         *)
(* Strings that are only compared for equality (ids, labels, messages)    *)
(* are TLA+ strings.  URLs are sequences of one-character strings, so     *)
(* that String::contains is a real substring search.                      *)
(***************************************************************************)
EXTENDS Naturals, Sequences, FiniteSets

\* Bounds of the model: the longest notification log explored, for the packet
\* alone, for the packet on a shared host, and under the host protocol.
MaxNotes == 4
MaxHostNotes == 3
MaxProtocolNotes == 12

----------------------------------------------------------------------------
\* Literals of lib.rs

\* "https://google.com" (lib.rs:18)
GoogleUrl ==
    <<"h", "t", "t", "p", "s", ":", "/", "/", "g", "o", "o", "g", "l", "e", ".", "c", "o", "m">>

\* "google.com" (lib.rs:39)
Pattern ==
    <<"g", "o", "o", "g", "l", "e", ".", "c", "o", "m">>

ItemId == "google-item"
ItemLabel == "Visit Google"
ItemKind == "webpage"
QuestId == "quest-1"
TaskId == "task-1"
TaskDescription == "Visit https://google.com"
QuestStartedMsg == "Rust Quest Started: Visit Google!"
TaskCompleteMsg == "Rust Task Complete: Google visited!"

----------------------------------------------------------------------------
\* Inputs: the URLs a host may report

\* "https://google.com/search?q=x"
SearchUrl ==
    <<"h", "t", "t", "p", "s", ":", "/", "/", "g", "o", "o", "g", "l", "e", ".", "c", "o", "m", "/", "s", "e", "a", "r", "c", "h", "?", "q", "=", "x">>

\* "https://example.com"
ExampleUrl ==
    <<"h", "t", "t", "p", "s", ":", "/", "/", "e", "x", "a", "m", "p", "l", "e", ".", "c", "o", "m">>

\* "https://evil.example/google.com": the pattern as a path segment of another host
PathSegmentUrl ==
    <<"h", "t", "t", "p", "s", ":", "/", "/", "e", "v", "i", "l", ".", "e", "x", "a", "m", "p", "l", "e", "/", "g", "o", "o", "g", "l", "e", ".", "c", "o", "m">>

\* "google.com": the pattern alone
BareUrl ==
    <<"g", "o", "o", "g", "l", "e", ".", "c", "o", "m">>

\* "https://google.co": the pattern cut short
TruncatedUrl ==
    <<"h", "t", "t", "p", "s", ":", "/", "/", "g", "o", "o", "g", "l", "e", ".", "c", "o">>

\* "https://google-com": the dot of the pattern is a literal dot
DashUrl ==
    <<"h", "t", "t", "p", "s", ":", "/", "/", "g", "o", "o", "g", "l", "e", "-", "c", "o", "m">>

\* "https://GOOGLE.COM": the search is case-sensitive
UpperUrl ==
    <<"h", "t", "t", "p", "s", ":", "/", "/", "G", "O", "O", "G", "L", "E", ".", "C", "O", "M">>

\* "gogoogle.com": the match starts inside a failed partial match
RestartUrl ==
    <<"g", "o", "g", "o", "o", "g", "l", "e", ".", "c", "o", "m">>

\* "": the empty string
EmptyUrl == <<>>

Urls ==
    { GoogleUrl, SearchUrl, ExampleUrl, PathSegmentUrl, BareUrl, TruncatedUrl,
      DashUrl, UpperUrl, RestartUrl, EmptyUrl }

\* Inputs of the direct ledger calls (other users of the same host)
Keys == { <<"quest-1", "task-1">>, <<"quest-1", "task-2">>, <<"quest-2", "task-1">> }
Statuses == { "Pending", "Completed", "Failed" }
Descriptions == { "Other task" }

----------------------------------------------------------------------------
\* The host: content registry, task ledger, notifications

\* The host's state before any call
EmptyHost ==
    [ registry |-> <<>>, tasks |-> <<>>, notifications |-> <<>>, seen |-> <<>>,
      result |-> "None" ]

\* Positions of the items with this id
item_positions(reg, id) == { i \in 1..Len(reg) : reg[i].id = id }

\* Positions of the tasks with this (quest_id, task_id)
task_positions(ts, q, t) ==
    { i \in 1..Len(ts) : ts[i].quest_id = q /\ ts[i].task_id = t }

\* The smallest element of a non-empty set of positions
first_of(S) == CHOOSE i \in S : \A j \in S : i <= j

\* The status of a task, "Absent" when the pair is not registered
status_of(ts, q, t) ==
    IF task_positions(ts, q, t) = {}
    THEN "Absent"
    ELSE ts[first_of(task_positions(ts, q, t))].status

\* register_item that always adds an entry
register_item_append(h, id, url, label, kind) ==
    [ h EXCEPT !.registry =
        Append(@, [ id |-> id, url |-> url, label |-> label, kind |-> kind ]) ]

\* register_item(id, url, label, kind): inserts or replaces the item keyed by id
register_item(h, id, url, label, kind) ==
    LET item == [ id |-> id, url |-> url, label |-> label, kind |-> kind ]
        at == item_positions(h.registry, id)
    IN  IF at = {}
        THEN [ h EXCEPT !.registry = Append(@, item) ]
        ELSE [ h EXCEPT !.registry =
                 [ i \in 1..Len(@) |-> IF i \in at THEN item ELSE @[i] ] ]

\* lookup(id) -> Option<Item>: the set holding the item, or the empty set
lookup(reg, id) ==
    IF item_positions(reg, id) = {}
    THEN {}
    ELSE { reg[first_of(item_positions(reg, id))] }

\* register_task(quest_id, task_id, description): inserts the task as Pending,
\* overwriting a prior entry of the same pair
register_task(h, q, t, d) ==
    LET task == [ quest_id |-> q, task_id |-> t, description |-> d,
                  status |-> "Pending" ]
        at == task_positions(h.tasks, q, t)
    IN  IF at = {}
        THEN [ h EXCEPT !.tasks = Append(@, task) ]
        ELSE [ h EXCEPT !.tasks =
                 [ i \in 1..Len(@) |-> IF i \in at THEN task ELSE @[i] ] ]

\* update_task that refuses to move a Completed task
update_task_forward_only(h, q, t, s) ==
    LET at == task_positions(h.tasks, q, t)
    IN  IF at = {}
        THEN [ h EXCEPT !.result = "NotFound" ]
        ELSE IF \E i \in at : h.tasks[i].status = "Completed"
        THEN [ h EXCEPT !.result = "Invalid" ]
        ELSE [ h EXCEPT !.result = "Ok",
                        !.tasks = [ i \in 1..Len(@) |->
                                      IF i \in at THEN [ @[i] EXCEPT !.status = s ]
                                      ELSE @[i] ] ]

\* update_task(quest_id, task_id, status): sets the status of the named task,
\* whatever it was; NotFound, and no change, when the pair is not registered
update_task(h, q, t, s) ==
    LET at == task_positions(h.tasks, q, t)
    IN  IF at = {}
        THEN [ h EXCEPT !.result = "NotFound" ]
        ELSE [ h EXCEPT !.result = "Ok",
                        !.tasks = [ i \in 1..Len(@) |->
                                      IF i \in at THEN [ @[i] EXCEPT !.status = s ]
                                      ELSE @[i] ] ]

\* notify_player(message): appends to what the player was told; seen records
\* the status task ("quest-1", "task-1") has at that moment
notify_player(h, msg) ==
    [ h EXCEPT !.notifications = Append(@, msg),
               !.seen = Append(@, status_of(h.tasks, "quest-1", "task-1")) ]

\* Quest completion that a quest without tasks satisfies
quest_complete_vacuous(ts, q) ==
    \A i \in 1..Len(ts) : ts[i].quest_id = q => ts[i].status = "Completed"

\* Quest completion, computed on demand from the ledger: the quest has a task
\* and as many completed tasks as tasks
quest_complete(ts, q) ==
    LET mine == SelectSeq(ts, LAMBDA x : x.quest_id = q)
        done == SelectSeq(mine, LAMBDA x : x.status = "Completed")
    IN  Len(mine) >= 1 /\ Len(done) = Len(mine)

----------------------------------------------------------------------------
\* The packet (lib.rs)

\* str::contains: the pattern occurs at some offset of the string
contains(s, pat) ==
    \E i \in 1..(Len(s) + 1) :
        /\ i + Len(pat) - 1 <= Len(s)
        /\ SubSeq(s, i, i + Len(pat) - 1) = pat

\* init without its register_task call
init_no_task(h) ==
    notify_player(register_item(h, ItemId, GoogleUrl, ItemLabel, ItemKind),
                  QuestStartedMsg)

\* init that registers the task only when the ledger does not hold it yet
init_keep_progress(h) ==
    LET h1 == register_item(h, ItemId, GoogleUrl, ItemLabel, ItemKind)
        h2 == IF task_positions(h1.tasks, QuestId, TaskId) = {}
              THEN register_task(h1, QuestId, TaskId, TaskDescription)
              ELSE h1
    IN  notify_player(h2, QuestStartedMsg)

\* init that sends "quest started" only when it was not sent before
init_notify_once(h) ==
    LET h1 == register_item(h, ItemId, GoogleUrl, ItemLabel, ItemKind)
        h2 == register_task(h1, QuestId, TaskId, TaskDescription)
    IN  IF \E i \in 1..Len(h2.notifications) : h2.notifications[i] = QuestStartedMsg
        THEN h2
        ELSE notify_player(h2, QuestStartedMsg)

\* fn init()
init(h) ==
    LET h1 == register_item(h, ItemId, GoogleUrl, ItemLabel, ItemKind)
        h2 == register_task(h1, QuestId, TaskId, TaskDescription)
    IN  notify_player(h2, QuestStartedMsg)

\* on_visit comparing the url with the item's url instead of searching it
on_visit_exact(h, url) ==
    IF url = GoogleUrl
    THEN notify_player(update_task(h, QuestId, TaskId, "Completed"), TaskCompleteMsg)
    ELSE h

\* on_visit with the notification outside the if
on_visit_notify_always(h, url) ==
    LET h1 == IF contains(url, Pattern)
              THEN update_task(h, QuestId, TaskId, "Completed")
              ELSE h
    IN  notify_player(h1, TaskCompleteMsg)

\* on_visit that registers the task when update_task does not find it
on_visit_upsert(h, url) ==
    IF contains(url, Pattern)
    THEN LET h1 == update_task(h, QuestId, TaskId, "Completed")
             h2 == IF h1.result = "NotFound"
                   THEN update_task(register_task(h1, QuestId, TaskId, TaskDescription),
                                    QuestId, TaskId, "Completed")
                   ELSE h1
         IN  notify_player([ h2 EXCEPT !.result = h1.result ], TaskCompleteMsg)
    ELSE h

\* on_visit that completes every task of the quest
on_visit_whole_quest(h, url) ==
    IF contains(url, Pattern)
    THEN LET h1 == update_task(h, QuestId, TaskId, "Completed")
             h2 == [ h1 EXCEPT !.tasks =
                       [ i \in 1..Len(@) |->
                           IF @[i].quest_id = QuestId
                           THEN [ @[i] EXCEPT !.status = "Completed" ]
                           ELSE @[i] ] ]
         IN  notify_player(h2, TaskCompleteMsg)
    ELSE h

\* on_visit that returns early when update_task fails
on_visit_abort_on_error(h, url) ==
    IF contains(url, Pattern)
    THEN LET h1 == update_task(h, QuestId, TaskId, "Completed")
         IN  IF h1.result = "Ok" THEN notify_player(h1, TaskCompleteMsg) ELSE h1
    ELSE h

\* on_visit that sends "task complete" only when it was not sent before
on_visit_notify_once(h, url) ==
    IF contains(url, Pattern)
    THEN LET h1 == update_task(h, QuestId, TaskId, "Completed")
         IN  IF \E i \in 1..Len(h1.notifications) : h1.notifications[i] = TaskCompleteMsg
             THEN h1
             ELSE notify_player(h1, TaskCompleteMsg)
    ELSE h

\* on_visit that puts the task back to Pending when the url does not match
on_visit_reset_on_miss(h, url) ==
    IF contains(url, Pattern)
    THEN notify_player(update_task(h, QuestId, TaskId, "Completed"), TaskCompleteMsg)
    ELSE update_task(h, QuestId, TaskId, "Pending")

\* on_visit that names a task init does not register
on_visit_wrong_task(h, url) ==
    IF contains(url, Pattern)
    THEN notify_player(update_task(h, QuestId, "task-2", "Completed"), TaskCompleteMsg)
    ELSE h

\* on_visit that also registers the visited url as the item
on_visit_register_item(h, url) ==
    IF contains(url, Pattern)
    THEN LET h1 == register_item(h, ItemId, url, ItemLabel, ItemKind)
         IN  notify_player(update_task(h1, QuestId, TaskId, "Completed"), TaskCompleteMsg)
    ELSE h

\* on_visit that sends the notification before it updates the task
on_visit_notify_first(h, url) ==
    IF contains(url, Pattern)
    THEN update_task(notify_player(h, TaskCompleteMsg), QuestId, TaskId, "Completed")
    ELSE h

\* on_visit that flips the task between Completed and Pending on each match
on_visit_toggle(h, url) ==
    IF contains(url, Pattern)
    THEN LET to == IF status_of(h.tasks, QuestId, TaskId) = "Completed"
                   THEN "Pending" ELSE "Completed"
         IN  notify_player(update_task(h, QuestId, TaskId, to), TaskCompleteMsg)
    ELSE h

\* fn on_visit(url: String)
on_visit(h, url) ==
    IF contains(url, Pattern)
    THEN notify_player(update_task(h, QuestId, TaskId, "Completed"), TaskCompleteMsg)
    ELSE h

----------------------------------------------------------------------------
\* The state machine

VARIABLES
    registry,       \* the content registry: a sequence of items
    tasks,          \* the task ledger: a sequence of tasks
    notifications,  \* the messages sent to the player, oldest first
    seen,           \* per notification, the status of ("quest-1", "task-1") when sent
    result,         \* what update_task returned in the latest call ("None": not called)
    inits,          \* how many times init has been called
    matches,        \* how many on_visit calls had a url that holds "google.com"
    since,          \* how many of those came after the latest init
    call            \* the latest call: its name, its arguments, and the status
                    \* the task it names had before it

vars == << registry, tasks, notifications, seen, result, inits, matches, since, call >>

\* The host's state as the record the operations work on; every call starts
\* with no update_task result
Host ==
    [ registry |-> registry, tasks |-> tasks, notifications |-> notifications,
      seen |-> seen, result |-> "None" ]

\* The host's state after a call
Becomes(h) ==
    /\ registry' = h.registry
    /\ tasks' = h.tasks
    /\ notifications' = h.notifications
    /\ seen' = h.seen
    /\ result' = h.result

\* The record of a call; again: an on_visit that repeats the on_visit before it
Called(op, url, q, t, s) ==
    [ op |-> op, url |-> url, quest_id |-> q, task_id |-> t, status |-> s,
      before |-> status_of(tasks, q, t),
      again |-> (op = "on_visit" /\ call.op = "on_visit" /\ call.url = url) ]

Init ==
    /\ registry = EmptyHost.registry
    /\ tasks = EmptyHost.tasks
    /\ notifications = EmptyHost.notifications
    /\ seen = EmptyHost.seen
    /\ result = EmptyHost.result
    /\ inits = 0
    /\ matches = 0
    /\ since = 0
    /\ call = [ op |-> "none", url |-> <<>>, quest_id |-> QuestId,
                task_id |-> TaskId, status |-> "Pending", before |-> "Absent",
                again |-> FALSE ]

\* The host calls init()
CallInit ==
    /\ Becomes(init(Host))
    /\ inits' = inits + 1
    /\ since' = 0
    /\ UNCHANGED matches
    /\ call' = Called("init", <<>>, QuestId, TaskId, "Pending")

\* The host calls on_visit(url)
CallOnVisit ==
    /\ \E url \in Urls :
        /\ Becomes(on_visit(Host, url))
        /\ call' = Called("on_visit", url, QuestId, TaskId, "Completed")
        /\ matches' = matches + (IF contains(url, Pattern) THEN 1 ELSE 0)
        /\ since' = since + (IF contains(url, Pattern) THEN 1 ELSE 0)
    /\ UNCHANGED inits

\* Another user of the host registers a task
CallRegisterTask ==
    /\ \E k \in Keys, d \in Descriptions :
        /\ Becomes(register_task(Host, k[1], k[2], d))
        /\ call' = Called("register_task", <<>>, k[1], k[2], "Pending")
    /\ UNCHANGED << inits, matches, since >>

\* Another user of the host updates a task
CallUpdateTask ==
    /\ \E k \in Keys, s \in Statuses :
        /\ Becomes(update_task(Host, k[1], k[2], s))
        /\ call' = Called("update_task", <<>>, k[1], k[2], s)
    /\ UNCHANGED << inits, matches, since >>

\* The packet alone: init and on_visit in any order
Next ==
    \/ Len(notifications) < MaxNotes /\ CallInit
    \/ Len(notifications) < MaxNotes /\ CallOnVisit

Spec == Init /\ [][Next]_vars

\* The packet on a host whose ledger other callers use too
HostNext ==
    \/ Len(notifications) < MaxHostNotes /\ CallInit
    \/ Len(notifications) < MaxHostNotes /\ CallOnVisit
    \/ CallRegisterTask
    \/ CallUpdateTask

HostSpec == Init /\ [][HostNext]_vars

\* The host protocol: init once, first, then on_visit only
ProtocolNext ==
    \/ inits = 0 /\ call.op = "none" /\ CallInit
    \/ inits = 1 /\ Len(notifications) < MaxProtocolNotes /\ CallOnVisit

ProtocolSpec == Init /\ [][ProtocolNext]_vars

----------------------------------------------------------------------------
\* Properties

\* The URLs of the inputs that hold "google.com", and those that do not,
\* classified by hand
MatchingUrls == { GoogleUrl, SearchUrl, PathSegmentUrl, BareUrl, RestartUrl }
OtherUrls == { ExampleUrl, TruncatedUrl, DashUrl, UpperUrl, EmptyUrl }

\* The latest call was on_visit with a url that holds "google.com"
VisitedMatch == call.op = "on_visit" /\ call.url \in MatchingUrls

\* How many tasks the ledger holds for a pair
task_count(ts, q, t) == Cardinality(task_positions(ts, q, t))

\* C1: right after any call of init, whatever came before, the registry is
\* exactly the one item "google-item" (url "https://google.com", label
\* "Visit Google", kind "webpage") and the ledger is exactly the one task
\* ("quest-1", "task-1"), Pending.
C1_InitSeeds ==
    call.op = "init" =>
        /\ registry = << [ id |-> "google-item", url |-> GoogleUrl,
                           label |-> "Visit Google", kind |-> "webpage" ] >>
        /\ Len(tasks) = 1
        /\ tasks[1].quest_id = "quest-1"
        /\ tasks[1].task_id = "task-1"
        /\ tasks[1].status = "Pending"

\* C1's case: a second init, called when the task was Completed
C1_Witness ==
    /\ call.op = "init"
    /\ inits = 2
    /\ call.before = "Completed"
    /\ Len(tasks) = 1

\* C2: once init has been called, on_visit with a url that holds "google.com"
\* anywhere leaves task ("quest-1", "task-1") Completed and adds exactly one
\* notification, the "task complete" one.
C2_MatchCompletes ==
    [][ (call'.op = "on_visit" /\ call'.url \in MatchingUrls /\ inits >= 1) =>
            /\ task_count(tasks', "quest-1", "task-1") = 1
            /\ status_of(tasks', "quest-1", "task-1") = "Completed"
            /\ notifications' = Append(notifications, "Rust Task Complete: Google visited!")
      ]_vars

\* C2's case: after init, the pattern as a path segment of another host
\* completed the Pending task
C2_Witness ==
    /\ call.op = "on_visit"
    /\ call.url = PathSegmentUrl
    /\ inits >= 1
    /\ call.before = "Pending"
    /\ status_of(tasks, "quest-1", "task-1") = "Completed"

\* C3: on_visit with a url that does not hold "google.com" changes nothing:
\* not the ledger, not the registry, not the notifications, and update_task
\* is not called, so nothing fails.
C3_NoMatchNoOp ==
    [][ (call'.op = "on_visit" /\ call'.url \in OtherUrls) =>
            /\ tasks' = tasks
            /\ registry' = registry
            /\ notifications' = notifications
            /\ result' = "None"
      ]_vars

\* C3's case: a url without the pattern was visited while the task was Pending
\* and other tasks were registered
C3_Witness ==
    /\ call.op = "on_visit"
    /\ call.url = UpperUrl
    /\ call.before = "Pending"
    /\ Len(tasks) >= 2
    /\ Len(notifications) >= 1

\* C4: register_task for a pair that is already registered leaves exactly one
\* task for the pair, Pending, whatever its status was; so does a further
\* init for ("quest-1", "task-1") once that task was Completed.
C4_ReRegisterResets ==
    (call.op \in { "register_task", "init" } /\ call.before # "Absent") =>
        /\ task_count(tasks, call.quest_id, call.task_id) = 1
        /\ status_of(tasks, call.quest_id, call.task_id) = "Pending"

\* C4's case: the second init found the task Completed, beside another task
C4_Witness ==
    /\ call.op = "init"
    /\ inits = 2
    /\ call.before = "Completed"
    /\ Len(tasks) >= 2
    /\ status_of(tasks, "quest-1", "task-1") = "Pending"

\* C5: update_task for a pair that is not registered returns NotFound and
\* leaves the ledger as it was; on_visit with a url that holds "google.com",
\* called before any init, does not create task ("quest-1", "task-1").
C5_UpdateMissingNotFound ==
    [][ /\ (call'.op = "update_task" /\ call'.before = "Absent") =>
              (result' = "NotFound" /\ tasks' = tasks)
        /\ (call'.op = "on_visit" /\ call'.url \in MatchingUrls
              /\ call'.before = "Absent") =>
              /\ result' = "NotFound"
              /\ tasks' = tasks
              /\ task_count(tasks', "quest-1", "task-1") = 0
      ]_vars

\* C5's case: a matching visit before any init, on an empty ledger
C5_Witness ==
    /\ VisitedMatch
    /\ inits = 0
    /\ call.before = "Absent"
    /\ result = "NotFound"
    /\ tasks = << >>

\* The pair a call names
names_task(c, x) == x.quest_id = c.quest_id /\ x.task_id = c.task_id

\* C6: update_task for a registered pair changes the status of that pair and
\* nothing else: every other task keeps its status and description, the
\* task keeps its description, and no task is added or removed.
C6_UpdateIsolated ==
    [][ ( /\ \/ call'.op = "update_task"
             \/ call'.op = "on_visit" /\ call'.url \in MatchingUrls
          /\ call'.before # "Absent" ) =>
            /\ Len(tasks') = Len(tasks)
            /\ \A i \in 1..Len(tasks) :
                  tasks'[i] = IF names_task(call', tasks[i])
                              THEN [ tasks[i] EXCEPT !.status = call'.status ]
                              ELSE tasks[i]
      ]_vars

\* C6's case: on_visit completed ("quest-1", "task-1") while a task of the
\* same quest was Pending and a task of another quest was Failed
C6_Witness ==
    /\ VisitedMatch
    /\ call.before = "Pending"
    /\ status_of(tasks, "quest-1", "task-1") = "Completed"
    /\ status_of(tasks, "quest-1", "task-2") = "Pending"
    /\ status_of(tasks, "quest-2", "task-1") = "Failed"

\* The tasks of a quest, as positions of the ledger
quest_tasks(ts, q) == { i \in 1..Len(ts) : ts[i].quest_id = q }

\* C7: a quest is complete iff it has a task and all its tasks are Completed:
\* a quest without tasks is not complete, a quest with a task that is not
\* Completed is not complete ("quest-1" with "task-1" Pending and "task-2"
\* Completed), and it is complete once on_visit has completed "task-1".
C7_QuestCompletion ==
    /\ \A q \in { "quest-1", "quest-2", "quest-3" } :
          quest_complete(tasks, q) <=>
              /\ quest_tasks(tasks, q) # {}
              /\ \A i \in quest_tasks(tasks, q) : tasks[i].status = "Completed"
    /\ ~ quest_complete(tasks, "quest-3")
    /\ ( /\ status_of(tasks, "quest-1", "task-1") = "Pending"
          /\ status_of(tasks, "quest-1", "task-2") = "Completed" ) =>
            ~ quest_complete(tasks, "quest-1")
    /\ ( /\ VisitedMatch
          /\ call.before = "Pending"
          /\ status_of(tasks, "quest-1", "task-2") = "Completed" ) =>
            quest_complete(tasks, "quest-1")

\* C7's case: on_visit completed "task-1" when "task-2" was Completed already,
\* which made "quest-1" complete, while "quest-2" has a Pending task
C7_Witness ==
    /\ VisitedMatch
    /\ call.before = "Pending"
    /\ status_of(tasks, "quest-1", "task-2") = "Completed"
    /\ quest_complete(tasks, "quest-1")
    /\ status_of(tasks, "quest-2", "task-1") = "Pending"
    /\ ~ quest_complete(tasks, "quest-2")

\* C8: update_task for a registered pair succeeds and sets the status it is
\* given, whatever the status was: back from Completed to Pending, and to the
\* status the task already has (as on_visit does for a Completed task).
C8_UpdateUnconditional ==
    [][ ( /\ \/ call'.op = "update_task"
             \/ call'.op = "on_visit" /\ call'.url \in MatchingUrls
          /\ call'.before # "Absent" ) =>
            /\ result' = "Ok"
            /\ status_of(tasks', call'.quest_id, call'.task_id) = call'.status
      ]_vars

\* C8's case: update_task moved a Completed task back to Pending
C8_Witness ==
    /\ call.op = "update_task"
    /\ call.before = "Completed"
    /\ call.status = "Pending"
    /\ result = "Ok"
    /\ status_of(tasks, call.quest_id, call.task_id) = "Pending"

\* C9: after one or more calls of init the registry holds exactly one item
\* with id "google-item", lookup("google-item") is that item with the fields
\* init registers, and lookup of any other id finds nothing.
C9_RegistryOneItem ==
    inits >= 1 =>
        /\ Cardinality(item_positions(registry, "google-item")) = 1
        /\ lookup(registry, "google-item") =
              { [ id |-> "google-item", url |-> GoogleUrl,
                  label |-> "Visit Google", kind |-> "webpage" ] }
        /\ \A id \in { "other-item", "quest-1", "task-1", "webpage", "" } :
              lookup(registry, id) = {}
        /\ \A i \in 1..Len(registry) : registry[i].id = "google-item"

\* C9's case: init was called three times
C9_Witness ==
    /\ inits = 3
    /\ call.op = "init"
    /\ lookup(registry, "google-item") # {}

\* C10: when update_task fails with NotFound inside on_visit, on_visit goes
\* on: the ledger and the registry are as they were and the "task complete"
\* notification is sent all the same.
C10_NotFoundDoesNotAbort ==
    [][ (call'.op = "on_visit" /\ call'.url \in MatchingUrls
          /\ call'.before = "Absent") =>
            /\ result' = "NotFound"
            /\ tasks' = tasks
            /\ registry' = registry
            /\ notifications' = Append(notifications, "Rust Task Complete: Google visited!")
      ]_vars

\* C10's case: the update failed while other tasks were registered, and the
\* notification is the latest one
C10_Witness ==
    /\ VisitedMatch
    /\ result = "NotFound"
    /\ tasks # << >>
    /\ notifications # << >>
    /\ notifications[Len(notifications)] = "Rust Task Complete: Google visited!"

\* How many times a message is in the notifications
sent(msg) == Cardinality({ i \in 1..Len(notifications) : notifications[i] = msg })

\* C11: over any sequence of calls there are as many "task complete"
\* notifications as on_visit calls with a url that holds "google.com"; a
\* matching visit of an already Completed task sends one more.
C11_NotifyEveryMatch ==
    /\ [](sent("Rust Task Complete: Google visited!") = matches)
    /\ [][ (call'.op = "on_visit" /\ call'.url \in MatchingUrls
              /\ call'.before = "Completed") =>
                notifications' = Append(notifications, "Rust Task Complete: Google visited!")
          ]_vars

\* C11's case: two matching visits, the second with the task Completed
\* already, and two "task complete" notifications
C11_Witness ==
    /\ VisitedMatch
    /\ call.before = "Completed"
    /\ matches = 2
    /\ sent("Rust Task Complete: Google visited!") = 2

\* The registry and the ledger a single init leaves on a fresh host
AfterOneInit ==
    /\ registry = << [ id |-> "google-item", url |-> GoogleUrl,
                       label |-> "Visit Google", kind |-> "webpage" ] >>
    /\ tasks = << [ quest_id |-> "quest-1", task_id |-> "task-1",
                    description |-> "Visit https://google.com",
                    status |-> "Pending" ] >>

\* C12: over any sequence of calls there are as many "quest started"
\* notifications as init calls; every init, the first or a repeated one,
\* sends the notification and leaves the registry and the ledger as a single
\* init leaves them.
C12_InitNotifiesEveryTime ==
    /\ [](sent("Rust Quest Started: Visit Google!") = inits)
    /\ [](call.op = "init" => AfterOneInit)
    /\ [][ call'.op = "init" =>
                notifications' = Append(notifications, "Rust Quest Started: Visit Google!") ]_vars
    /\ [][ (call'.op = "init" /\ call.op = "init") =>
                (registry' = registry /\ tasks' = tasks) ]_vars

\* C12's case: init called twice in a row
C12_Witness ==
    /\ call.op = "init"
    /\ inits = 2
    /\ notifications = << "Rust Quest Started: Visit Google!",
                          "Rust Quest Started: Visit Google!" >>

\* C13: once task ("quest-1", "task-1") is Completed, every on_visit leaves it
\* Completed, so it stays Completed under the host protocol (one init, then
\* on_visit only); the one step that takes it away from Completed is a
\* further init, which makes it Pending.
C13_CompletedStays ==
    [][ status_of(tasks, "quest-1", "task-1") = "Completed" =>
            /\ call'.op = "on_visit" =>
                  status_of(tasks', "quest-1", "task-1") = "Completed"
            /\ inits' = inits =>
                  status_of(tasks', "quest-1", "task-1") = "Completed"
            /\ status_of(tasks', "quest-1", "task-1") # "Completed" =>
                  /\ call'.op = "init"
                  /\ inits' = inits + 1
                  /\ status_of(tasks', "quest-1", "task-1") = "Pending"
      ]_vars

\* C13's case: under the protocol (one init), a visit without the pattern came
\* after the task was Completed, and the task is Completed still
C13_Witness ==
    /\ inits = 1
    /\ notifications[1] = "Rust Quest Started: Visit Google!"
    /\ call.op = "on_visit"
    /\ call.url \in OtherUrls
    /\ call.before = "Completed"
    /\ status_of(tasks, "quest-1", "task-1") = "Completed"

\* C14: after any sequence of init and on_visit calls, "quest-1" is complete
\* iff init has been called and an on_visit with a url that holds
\* "google.com" came after the latest init; before any init it is not complete.
C14_CompleteIffVisitedSinceInit ==
    /\ quest_complete(tasks, "quest-1") <=> (inits >= 1 /\ since >= 1)
    /\ inits = 0 => ~ quest_complete(tasks, "quest-1")

\* C14's case: the quest was completed, a second init reset it, and a
\* matching visit completed it again
C14_Witness ==
    /\ inits = 2
    /\ since = 1
    /\ matches = 2
    /\ quest_complete(tasks, "quest-1")

\* The (quest_id, task_id) pairs of the ledger
task_keys(ts) == { << ts[i].quest_id, ts[i].task_id >> : i \in 1..Len(ts) }

\* The items of the registry
items(reg) == { reg[i] : i \in 1..Len(reg) }

\* C15: on_visit, for any url and in any state, leaves the registry as it is
\* and the ledger with the same tasks; no call removes an item or a task;
\* of the packet's two entry points only init adds an item or a task.
C15_VisitKeepsItemsAndTasks ==
    [][ /\ call'.op = "on_visit" =>
              /\ registry' = registry
              /\ Len(tasks') = Len(tasks)
              /\ task_keys(tasks') = task_keys(tasks)
        /\ items(registry) \subseteq items(registry')
        /\ task_keys(tasks) \subseteq task_keys(tasks')
        /\ Len(tasks) <= Len(tasks')
        /\ registry' # registry => call'.op = "init"
        /\ (call'.op \in { "init", "on_visit" } /\ task_keys(tasks') # task_keys(tasks)) =>
              call'.op = "init"
      ]_vars

\* C15's case: a matching visit on a host with an item and three tasks
C15_Witness ==
    /\ VisitedMatch
    /\ Len(registry) = 1
    /\ Len(tasks) = 3
    /\ call.before = "Failed"

\* C16: under the host protocol the "quest started" notification is the first
\* one, and whenever a "task complete" notification is sent the task is
\* Completed already: update_task comes before notify_player in on_visit.
C16_NotificationOrder ==
    /\ Len(seen) = Len(notifications)
    /\ notifications # << >> =>
          notifications[1] = "Rust Quest Started: Visit Google!"
    /\ \A i \in 1..Len(notifications) :
          notifications[i] = "Rust Task Complete: Google visited!" =>
              seen[i] = "Completed"

\* C16's case: init, then the visit that completed the Pending task
C16_Witness ==
    /\ VisitedMatch
    /\ call.before = "Pending"
    /\ notifications = << "Rust Quest Started: Visit Google!",
                          "Rust Task Complete: Google visited!" >>
    /\ seen = << "Pending", "Completed" >>

\* C17: an on_visit(url) that follows an on_visit(url) leaves the registry and
\* the ledger as the first one left them; the notifications grow by one
\* "task complete" when the url holds "google.com" and not at all otherwise.
C17_VisitIdempotent ==
    [][ (call'.op = "on_visit" /\ call'.again) =>
            /\ registry' = registry
            /\ tasks' = tasks
            /\ notifications' =
                  IF call'.url \in MatchingUrls
                  THEN Append(notifications, "Rust Task Complete: Google visited!")
                  ELSE notifications
      ]_vars

\* C17's case: the same matching url visited twice in a row, the first visit
\* having completed the task
C17_Witness ==
    /\ VisitedMatch
    /\ call.again
    /\ call.before = "Completed"
    /\ matches = 2
    /\ status_of(tasks, "quest-1", "task-1") = "Completed"

====
